---------------------------- MODULE Spec2Model ----------------------------
(***************************************************************************)
(* A model of the smol-evm-rust interpreter core: the 256-bit operand      *)
(* stack, the byte memory, the calldata accessor, the execution context    *)
(* and the opcode dispatcher with its handlers (src/src/evm).              *)
(*                                                                         *)
(* A U256 is held as its 32 base-256 digits, least significant first, so   *)
(* that all arithmetic is exact modulo 2^256 and the big-endian            *)
(* conversions are real conversions.  A usize is a natural number.         *)
(***************************************************************************)
EXTENDS Integers, Sequences, FiniteSets, TLC

(***************************************************************************)
(* Bounds of the model.                                                    *)
(***************************************************************************)
\* Opcode executions per behaviour from a fresh context, any opcode.
MaxSteps == 2
\* Depth of the sampled stacks.
MaxSampledDepth == 3
\* Steps of the driver loop per behaviour.
MaxRunSteps == 10
\* Largest memory size (and byte-range length) the model allocates.
MaxMemory == 160
\* A usize is decoded exactly from this many low bytes; larger values are
\* represented by the single value UsizeHuge, which exceeds every length
\* (code, calldata, memory) of the model.
ExactUsizeBytes == 2
\* Exponents up to this value are compared with iterated multiplication.
MaxRefExponent == 3

(***************************************************************************)
(* Program constants.                                                      *)
(***************************************************************************)
\* Stack depth limit (constants::MAX_DEPTH).
MAX_DEPTH == 1024
\* The most words a handler pops (handleCalldatacopy, handleCodecopy).
MostOperands == 3
\* Bytes of a word (U256), of a usize (64-bit platform), of an Address.
WordBytes == 32
UsizeBytes == 8
AddressBytes == 20

STOP == 0
ADD == 1
MUL == 2
SUB == 3
DIV == 4
MOD == 6
EXP == 10
LT == 16
GT == 17
EQ == 20
ISZERO == 21
AND == 22
OR == 23
XOR == 24
NOT == 25
ADDRESS == 48
CALLER == 51
CALLVALUE == 52
CALLDATALOAD == 53
CALLDATASIZE == 54
CALLDATACOPY == 55
CODESIZE == 56
CODECOPY == 57
POP == 80
MLOAD == 81
MSTORE == 82
MSTORE8 == 83
JUMP == 86
JUMPI == 87
PC == 88
MSIZE == 89
JUMPDEST == 91
PUSH1 == 96
PUSH2 == 97
PUSH3 == 98
PUSH4 == 99
PUSH5 == 100
PUSH6 == 101
PUSH7 == 102
PUSH8 == 103
PUSH32 == 127
DUP1 == 128
DUP2 == 129
DUP3 == 130
DUP4 == 131
SWAP1 == 144
SWAP2 == 145
SWAP3 == 146
SWAP4 == 147
RETURN == 243

(***************************************************************************)
(* Bytes and words.                                                        *)
(***************************************************************************)
Byte == 0..255

\* A function on 1..n as the sequence of its n values.
AsSeq(f, n) == IF n = 0 THEN <<>> ELSE SubSeq(f, 1, n)

\* A word given digit by digit, as the sequence of its 32 digits.
AsWord(digits) == AsSeq(digits, WordBytes)

\* The value every usize too large to decode exactly is represented by.
RECURSIVE Pow256(_)
Pow256(n) == IF n = 0 THEN 1 ELSE 256 * Pow256(n - 1)

UsizeHuge == Pow256(ExactUsizeBytes)

\* U256::zero()
ZeroWord == AsWord([i \in 1..WordBytes |-> 0])

\* U256::MAX
MaxWord == AsWord([i \in 1..WordBytes |-> 255])

\* U256::from(n) for a native integer n (u8, u32, usize).
FromNat(n) ==
    AsWord([i \in 1..WordBytes |->
        IF i <= 3 THEN (n \div Pow256(i - 1)) % 256
        ELSE IF i = 4 THEN n \div Pow256(3) ELSE 0])

\* U256::from_big_endian(slice): the slice, of at most 32 bytes, read as a
\* big-endian number.
from_big_endian(bytes) ==
    AsWord([i \in 1..WordBytes |->
        IF i <= Len(bytes) THEN bytes[Len(bytes) + 1 - i] ELSE 0])

\* U256::to_little_endian in the place of to_big_endian: the 32 bytes of
\* the word, least significant first.  C23 rests on the byte order.
to_little_endian(w) == w

\* U256::to_big_endian: the 32 bytes of the word, most significant first.
to_big_endian(w) == AsWord([i \in 1..WordBytes |-> w[WordBytes + 1 - i]])

\* U256::is_zero
is_zero(w) == \A i \in 1..WordBytes : w[i] = 0

\* The sum a + b + carry, modulo 2^256, digit by digit.
RECURSIVE AddDigits(_, _, _, _, _)
AddDigits(a, b, i, carry, acc) ==
    IF i > WordBytes THEN acc
    ELSE LET s == a[i] + b[i] + carry
         IN  AddDigits(a, b, i + 1, s \div 256, Append(acc, s % 256))

\* U256::overflowing_add(..).0
overflowing_add(a, b) == AddDigits(a, b, 1, 0, <<>>)

\* The bitwise complement of a byte and of a word (Not for U256).
not_word(w) == AsWord([i \in 1..WordBytes |-> 255 - w[i]])

\* U256::overflowing_sub(..).0 : a - b = a + ~b + 1 modulo 2^256.
overflowing_sub(a, b) == AddDigits(a, not_word(b), 1, 1, <<>>)

\* The k-th column of the schoolbook product (digits i + j = k + 1).
RECURSIVE MulColumn(_, _, _, _)
MulColumn(a, b, k, i) ==
    IF i > k THEN 0 ELSE a[i] * b[k + 1 - i] + MulColumn(a, b, k, i + 1)

RECURSIVE MulDigits(_, _, _, _, _)
MulDigits(a, b, k, carry, acc) ==
    IF k > WordBytes THEN acc
    ELSE LET s == MulColumn(a, b, k, 1) + carry
         IN  MulDigits(a, b, k + 1, s \div 256, Append(acc, s % 256))

\* U256::overflowing_mul(..).0
overflowing_mul(a, b) ==
    IF is_zero(a) \/ is_zero(b) THEN ZeroWord
    ELSE MulDigits(a, b, 1, 0, <<>>)

\* Unsigned comparison, from the most significant digit down.
RECURSIVE LessFrom(_, _, _)
LessFrom(a, b, i) ==
    IF i = 0 THEN FALSE
    ELSE IF a[i] # b[i] THEN a[i] < b[i]
    ELSE LessFrom(a, b, i - 1)

word_lt(a, b) == LessFrom(a, b, WordBytes)

\* w >> 1
shr1(w) ==
    AsWord([i \in 1..WordBytes |->
        (w[i] \div 2) + (IF i < WordBytes THEN (w[i + 1] % 2) * 128 ELSE 0)])

\* (w << 1) | bit, modulo 2^256
shl1_or(w, bit) ==
    AsWord([i \in 1..WordBytes |->
        ((w[i] * 2) % 256) + (IF i = 1 THEN bit ELSE w[i - 1] \div 128)])

\* Bit n of a word, bit 0 the least significant.
RECURSIVE Pow2(_)
Pow2(n) == IF n = 0 THEN 1 ELSE 2 * Pow2(n - 1)

word_bit(w, n) == (w[(n \div 8) + 1] \div Pow2(n % 8)) % 2

\* The index of the highest non-zero digit of a word (0 for zero).
RECURSIVE TopDigit(_, _)
TopDigit(w, i) == IF i = 0 \/ w[i] # 0 THEN i ELSE TopDigit(w, i - 1)

\* Long division, one bit of the dividend at a time from the top bit down.
\* The loop state holds the quotient and remainder of the bits consumed so
\* far and the number n of bits still to consume (b # 0).
DivModBit(a, b, st) ==
    LET r1 == shl1_or(st.rem, word_bit(a, st.n - 1))
        ge == ~word_lt(r1, b)
    IN  [quot |-> shl1_or(st.quot, IF ge THEN 1 ELSE 0),
         rem |-> IF ge THEN overflowing_sub(r1, b) ELSE r1,
         n |-> st.n - 1]

\* The eight bits of one digit.
DivModDigit(a, b, st) ==
    LET s1 == DivModBit(a, b, st)
        s2 == DivModBit(a, b, s1)
        s3 == DivModBit(a, b, s2)
        s4 == DivModBit(a, b, s3)
        s5 == DivModBit(a, b, s4)
        s6 == DivModBit(a, b, s5)
        s7 == DivModBit(a, b, s6)
    IN  DivModBit(a, b, s7)

RECURSIVE DivModLoop(_, _, _)
DivModLoop(a, b, st) ==
    IF st.n = 0 THEN st ELSE DivModLoop(a, b, DivModDigit(a, b, st))

DivMod(a, b) ==
    DivModLoop(a, b, [quot |-> ZeroWord, rem |-> ZeroWord,
                      n |-> 8 * TopDigit(a, WordBytes)])

\* a / b and a % b of U256, for b # 0; integer division by zero panics.
word_div(a, b) == DivMod(a, b).quot
word_rem(a, b) == DivMod(a, b).rem

\* Bitwise operations on bytes, bit by bit.
BitOp(kind, p, q) ==
    CASE kind = "and" -> p * q
      [] kind = "or" -> p + q - p * q
      [] kind = "xor" -> (p + q) % 2

RECURSIVE ByteBits(_, _, _, _)
ByteBits(kind, x, y, n) ==
    IF n = 0 THEN 0
    ELSE BitOp(kind, x % 2, y % 2) + 2 * ByteBits(kind, x \div 2, y \div 2, n - 1)

word_and(a, b) == AsWord([i \in 1..WordBytes |-> ByteBits("and", a[i], b[i], 8)])
word_or(a, b) == AsWord([i \in 1..WordBytes |-> ByteBits("or", a[i], b[i], 8)])
word_xor(a, b) == AsWord([i \in 1..WordBytes |-> ByteBits("xor", a[i], b[i], 8)])

\* The exponentiation loop of handleExp, one iteration: the loop state is
\* (result, exp, base_pow) and the loop runs while exp is not zero.
ExpIteration(st) ==
    IF is_zero(st.exp) THEN st
    ELSE [result |-> IF st.exp[1] % 2 # 0
                     THEN overflowing_mul(st.result, st.base_pow)
                     ELSE st.result,
          base_pow |-> overflowing_mul(st.base_pow, st.base_pow),
          exp |-> shr1(st.exp)]

\* Eight iterations of the loop.
ExpIterations(st) ==
    LET s1 == ExpIteration(st)
        s2 == ExpIteration(s1)
        s3 == ExpIteration(s2)
        s4 == ExpIteration(s3)
        s5 == ExpIteration(s4)
        s6 == ExpIteration(s5)
        s7 == ExpIteration(s6)
    IN  ExpIteration(s7)

RECURSIVE ExpLoop(_)
ExpLoop(st) == IF is_zero(st.exp) THEN st ELSE ExpLoop(ExpIterations(st))

(***************************************************************************)
(* usize.  A usize n below UsizeHuge is the number n; UsizeHuge stands for *)
(* every usize from UsizeHuge up to 2^64 - UsizeHuge - 1, which is above   *)
(* every length of the model and far from usize::MAX; a number n < 0       *)
(* stands for the usize 2^64 + n, so that adding a small number to it is   *)
(* the wrapped sum as soon as the result is not negative.                  *)
(***************************************************************************)
\* The build profile: usize additions panic on overflow (overflow-checks on,
\* the dev profile) or wrap (overflow-checks off, the release profile).
VARIABLE overflow_checks

\* Whether a + k leaves the usize range, for a small k >= 0.
usize_overflows(a, k) == a < 0 /\ a + k >= 0

\* a + k, wrapped, for a small k >= 0.
usize_add(a, k) == IF a = UsizeHuge THEN UsizeHuge ELSE a + k

\* a < n for a length n.
usize_lt(a, n) == a >= 0 /\ a < n

\* Whether a word fits a usize (U256::as_usize panics when it does not).
fits_usize(w) == \A i \in (UsizeBytes + 1)..WordBytes : w[i] = 0

\* The low digits of a word as a number.
RECURSIVE LowValue(_, _)
LowValue(w, n) == IF n = 0 THEN 0 ELSE w[1] + 256 * LowValue(Tail(w), n - 1)

\* U256::as_usize for a word that fits.
as_usize(w) ==
    IF \A i \in (ExactUsizeBytes + 1)..UsizeBytes : w[i] = 0
    THEN LowValue(w, ExactUsizeBytes)
    ELSE IF \A i \in (ExactUsizeBytes + 1)..UsizeBytes : w[i] = 255
    THEN LowValue(w, ExactUsizeBytes) - UsizeHuge
    ELSE UsizeHuge

\* The word of an integer k modulo 2^256: k itself when k >= 0, and
\* 2^256 + k = ~(-k - 1) when k < 0.
WordOfInt(k) ==
    IF k >= 0 THEN FromNat(k) ELSE not_word(FromNat(0 - k - 1))

\* base^n modulo 2^256 by n multiplications.
RECURSIVE Power(_, _)
Power(base, n) ==
    IF n = 0 THEN FromNat(1) ELSE overflowing_mul(base, Power(base, n - 1))

\* n zero bytes.
Zeros(n) == AsSeq([i \in 1..n |-> 0], n)

(***************************************************************************)
(* Stack (stack.rs).  data is a sequence of words, bottom first.           *)
(***************************************************************************)
StackNew == <<>>

\* Stack::push with the depth test off by one (> for >=): a full stack takes
\* one more word.  C1 rests on the test in push.
push_off_by_one(data, value) ==
    IF Len(data) > MAX_DEPTH
    THEN [ok |-> FALSE, err |-> "StackOverflow", data |-> data]
    ELSE [ok |-> TRUE, err |-> "", data |-> Append(data, value)]

\* Stack::push
push(data, value) ==
    IF Len(data) >= MAX_DEPTH
    THEN [ok |-> FALSE, err |-> "StackOverflow", data |-> data]
    ELSE [ok |-> TRUE, err |-> "", data |-> Append(data, value)]

\* Stack::pop
pop(data) ==
    IF data = <<>>
    THEN [ok |-> FALSE, err |-> "StackUnderflow", data |-> data, value |-> ZeroWord]
    ELSE [ok |-> TRUE, err |-> "", data |-> SubSeq(data, 1, Len(data) - 1),
          value |-> data[Len(data)]]

\* Stack::peek
peek(data, index) ==
    IF index >= Len(data)
    THEN [ok |-> FALSE, err |-> "IndexError", value |-> ZeroWord]
    ELSE [ok |-> TRUE, err |-> "", value |-> data[Len(data) - index]]

\* Stack::swap exchanging the top with the word n - 1 below it (an index
\* off by one).  C15 rests on the indices of swap.
swap_off_by_one(data, n) ==
    IF n + 1 > Len(data)
    THEN [ok |-> FALSE, err |-> "StackOverflow", data |-> data]
    ELSE [ok |-> TRUE, err |-> "",
          data |-> [data EXCEPT ![Len(data)] = data[Len(data) - n + 1],
                                ![Len(data) - n + 1] = data[Len(data)]]]

\* Stack::swap
swap(data, n) ==
    IF n + 1 > Len(data)
    THEN [ok |-> FALSE, err |-> "StackOverflow", data |-> data]
    ELSE [ok |-> TRUE, err |-> "",
          data |-> [data EXCEPT ![Len(data)] = data[Len(data) - n],
                                ![Len(data) - n] = data[Len(data)]]]

(***************************************************************************)
(* Memory (memory.rs).  memory is a sequence of bytes.                     *)
(***************************************************************************)
MemoryNew == <<>>

\* Vec::resize(required_size, 0) without the test required_size > len: a
\* store below the end truncates the memory.  C11 rests on the test.
Resized_always(memory, required_size) ==
    IF required_size > Len(memory)
    THEN memory \o Zeros(required_size - Len(memory))
    ELSE SubSeq(memory, 1, required_size)

\* Vec::resize(required_size, 0) when the vector is shorter.
Resized(memory, required_size) ==
    IF required_size > Len(memory)
    THEN memory \o Zeros(required_size - Len(memory))
    ELSE memory

\* memory with bytes written at [offset, offset + Len(bytes)).
Written(memory, offset, bytes) ==
    AsSeq([i \in 1..Len(memory) |->
              IF i > offset /\ i <= offset + Len(bytes) THEN bytes[i - offset]
              ELSE memory[i]], Len(memory))

\* Memory::store: whether it panics, and the memory it leaves.  When
\* offset + 32 wraps, the vector is resized to the wrapped size and the first
\* indexed write is out of bounds.
MemoryStore(memory, offset, value) ==
    LET required_size == usize_add(offset, WordBytes)
    IN  IF usize_overflows(offset, WordBytes) /\ overflow_checks
        THEN [panics |-> TRUE, memory |-> memory]
        ELSE IF offset < 0
        THEN [panics |-> TRUE, memory |-> Resized(memory, required_size)]
        ELSE [panics |-> FALSE,
              memory |-> Written(Resized(memory, required_size), offset,
                                 to_big_endian(value))]

\* Memory::load: whether it panics, and the word it returns.  When
\* offset + 32 wraps to a size within the memory, the first indexed read is
\* out of bounds.
MemoryLoad(memory, offset) ==
    LET required_size == usize_add(offset, WordBytes)
    IN  IF usize_overflows(offset, WordBytes) /\ overflow_checks
        THEN [panics |-> TRUE, value |-> ZeroWord]
        ELSE IF required_size < 0 \/ required_size > Len(memory)
        THEN [panics |-> FALSE, value |-> ZeroWord]
        ELSE IF offset < 0
        THEN [panics |-> TRUE, value |-> ZeroWord]
        ELSE [panics |-> FALSE,
              value |-> from_big_endian(
                            SubSeq(memory, offset + 1, offset + WordBytes))]

\* Memory::store_byte
MemoryStoreByte(memory, offset, byte) ==
    Written(Resized(memory, offset + 1), offset, <<byte>>)

\* Memory::store_bytes
MemoryStoreBytes(memory, offset, bytes) ==
    Written(Resized(memory, offset + Len(bytes)), offset, bytes)

\* Memory::load_range
MemoryLoadRange(memory, offset, length) ==
    AsSeq([i \in 1..length |->
              IF usize_lt(usize_add(offset, i - 1), Len(memory))
              THEN memory[offset + i] ELSE 0], length)

\* Memory::size
MemorySize(memory) == Len(memory)

(***************************************************************************)
(* Calldata (calldata.rs).  data is a sequence of bytes.                   *)
(***************************************************************************)
\* Calldata::size
CalldataSize(data) == Len(data)

\* for i in 0..length { if offset + i < data.len() { data[offset + i] } else
\* { 0 } }: the bytes collected, offset + i wrapped.
ZeroExtendedRange(data, offset, length) ==
    AsSeq([i \in 1..length |->
              IF usize_lt(usize_add(offset, i - 1), Len(data))
              THEN data[usize_add(offset, i - 1) + 1] ELSE 0], length)

\* Whether some offset + i of that loop leaves the usize range.
RangeOverflows(offset, length) ==
    length >= 1 /\ usize_overflows(offset, length - 1)

\* Calldata::load: whether it panics, and the word it returns.
CalldataLoad(data, offset) ==
    [panics |-> overflow_checks /\ RangeOverflows(offset, WordBytes),
     value |-> from_big_endian(ZeroExtendedRange(data, offset, WordBytes))]

\* Calldata::copy_to_memory: whether it panics, and the memory it leaves.
copy_to_memory(data, calldata_offset, memory_offset, length, memory) ==
    IF overflow_checks /\ RangeOverflows(calldata_offset, length)
    THEN [panics |-> TRUE, memory |-> memory]
    ELSE [panics |-> FALSE,
          memory |-> MemoryStoreBytes(memory, memory_offset,
                         ZeroExtendedRange(data, calldata_offset, length))]

(***************************************************************************)
(* ExecutionContext (context.rs), as a record, and the results of the      *)
(* handlers: the context as the handler leaves it and what it returns.     *)
(***************************************************************************)
\* ExecutionContext::new
ContextNew(contractAddress, code, calldata) ==
    [code |-> code,
     stack |-> StackNew,
     memory |-> MemoryNew,
     calldata |-> calldata,
     contractAddress |-> contractAddress,
     pc |-> 0,
     stopped |-> FALSE,
     return_data |-> <<>>]

\* ExecutionContext::read_code
read_code(c, num_bytes) ==
    AsSeq([i \in 1..num_bytes |->
              IF c.pc + (i - 1) < Len(c.code) THEN c.code[c.pc + i] ELSE 0],
          num_bytes)

\* ExecutionContext::set_pc
set_pc(c, pc) == [c EXCEPT !.pc = pc]

\* ExecutionContext::stop
stop(c) == [c EXCEPT !.stopped = TRUE]

\* ExecutionContext::set_return_data without self.stopped = true: the driver
\* runs on after RETURN.  C19 rests on RETURN halting.
set_return_data_running(c, offset, length) ==
    [c EXCEPT !.return_data = MemoryLoadRange(c.memory, offset, length)]

\* ExecutionContext::set_return_data
set_return_data(c, offset, length) ==
    [c EXCEPT !.stopped = TRUE,
              !.return_data = MemoryLoadRange(c.memory, offset, length)]

\* Ok(()) and Err(e) of a handler, with the context as it is at the return.
Ok(c) == [ctx |-> c, res |-> "Ok"]
Err(c, e) == [ctx |-> c, res |-> e]

\* A panic (a failed as_usize, an index out of bounds) unwinds out of the
\* interpreter.
Panic(c) == [ctx |-> c, res |-> "Panic"]

\* An allocation or a range the model does not hold (see MaxMemory).
OutOfModel(c) == [ctx |-> c, res |-> "OutOfModel"]

StackErrors == {"StackOverflow", "StackUnderflow", "IndexError"}
Errors == StackErrors \cup {"InvalidOpcode", "InvalidJump"}

\* ctx.stack_mut().push(value)?; ctx.set_pc(ctx.pc() + advance); Ok(())
PushAndAdvance(c, data, value, advance) ==
    LET p == push(data, value)
    IN  IF p.ok THEN Ok([c EXCEPT !.stack = p.data, !.pc = c.pc + advance])
        ELSE Err([c EXCEPT !.stack = data], p.err)

\* let b = ctx.stack_mut().pop()?; let a = ctx.stack_mut().pop()?;
Pop2(data) ==
    LET p1 == pop(data)
        p2 == pop(p1.data)
    IN  IF ~p1.ok THEN [ok |-> FALSE, err |-> p1.err, data |-> p1.data,
                        first |-> ZeroWord, second |-> ZeroWord]
        ELSE IF ~p2.ok THEN [ok |-> FALSE, err |-> p2.err, data |-> p2.data,
                             first |-> p1.value, second |-> ZeroWord]
        ELSE [ok |-> TRUE, err |-> "", data |-> p2.data,
              first |-> p1.value, second |-> p2.value]

\* Three pops in a row.
Pop3(data) ==
    LET p == Pop2(data)
        p3 == pop(p.data)
    IN  IF ~p.ok THEN [ok |-> FALSE, err |-> p.err, data |-> p.data,
                       first |-> p.first, second |-> p.second, third |-> ZeroWord]
        ELSE IF ~p3.ok THEN [ok |-> FALSE, err |-> p3.err, data |-> p3.data,
                       first |-> p.first, second |-> p.second, third |-> ZeroWord]
        ELSE [ok |-> TRUE, err |-> "", data |-> p3.data,
              first |-> p.first, second |-> p.second, third |-> p3.value]

(***************************************************************************)
(* Handlers (opcodes.rs).                                                  *)
(***************************************************************************)
\* handleStop without ctx.stop().  C24 rests on STOP halting the context.
handleStop_running(c) == Ok(set_pc(c, c.pc + 1))

handleStop(c) == Ok(set_pc(stop(c), c.pc + 1))

\* handleAdd with checked addition (a + b in place of overflowing_add), which
\* panics when the sum leaves 256 bits.  C10 rests on the wrapping addition.
handleAdd_checked(c) ==
    LET p == Pop2(c.stack)
        b == p.first
        a == p.second
        sum == overflowing_add(a, b)
    IN  IF ~p.ok THEN Err([c EXCEPT !.stack = p.data], p.err)
        ELSE IF word_lt(sum, a) THEN Panic([c EXCEPT !.stack = p.data])
        ELSE PushAndAdvance(c, p.data, sum, 1)

handleAdd(c) ==
    LET p == Pop2(c.stack)
        b == p.first
        a == p.second
    IN  IF ~p.ok THEN Err([c EXCEPT !.stack = p.data], p.err)
        ELSE PushAndAdvance(c, p.data, overflowing_add(a, b), 1)

handleMul(c) ==
    LET p == Pop2(c.stack)
        b == p.first
        a == p.second
    IN  IF ~p.ok THEN Err([c EXCEPT !.stack = p.data], p.err)
        ELSE PushAndAdvance(c, p.data, overflowing_mul(a, b), 1)

handleSub(c) ==
    LET p == Pop2(c.stack)
        b == p.first
        a == p.second
    IN  IF ~p.ok THEN Err([c EXCEPT !.stack = p.data], p.err)
        ELSE PushAndAdvance(c, p.data, overflowing_sub(a, b), 1)

\* handleDiv without the test b.is_zero(): U256 division by zero panics.
\* C8 rests on the test.
handleDiv_unchecked(c) ==
    LET p == Pop2(c.stack)
        b == p.first
        a == p.second
    IN  IF ~p.ok THEN Err([c EXCEPT !.stack = p.data], p.err)
        ELSE IF is_zero(b) THEN Panic([c EXCEPT !.stack = p.data])
        ELSE PushAndAdvance(c, p.data, word_div(a, b), 1)

handleDiv(c) ==
    LET p == Pop2(c.stack)
        b == p.first
        a == p.second
    IN  IF ~p.ok THEN Err([c EXCEPT !.stack = p.data], p.err)
        ELSE PushAndAdvance(c, p.data,
                 IF is_zero(b) THEN ZeroWord ELSE word_div(a, b), 1)

handleMod(c) ==
    LET p == Pop2(c.stack)
        b == p.first
        a == p.second
    IN  IF ~p.ok THEN Err([c EXCEPT !.stack = p.data], p.err)
        ELSE PushAndAdvance(c, p.data,
                 IF is_zero(b) THEN ZeroWord ELSE word_rem(a, b), 1)

handleExp(c) ==
    LET p == Pop2(c.stack)
        exponent == p.first
        base == p.second
    IN  IF ~p.ok THEN Err([c EXCEPT !.stack = p.data], p.err)
        ELSE PushAndAdvance(c, p.data,
                 IF is_zero(exponent) THEN FromNat(1)
                 ELSE IF is_zero(base) THEN ZeroWord
                 ELSE ExpLoop([result |-> FromNat(1), exp |-> exponent,
                               base_pow |-> base]).result,
                 1)

\* handleLt reading its second operand with peek(0) instead of pop().  C26
\* rests on both operands being popped.
handleLt_peeking(c) ==
    LET p == pop(c.stack)
        q == peek(p.data, 0)
    IN  IF ~p.ok THEN Err([c EXCEPT !.stack = p.data], p.err)
        ELSE IF ~q.ok THEN Err([c EXCEPT !.stack = p.data], q.err)
        ELSE PushAndAdvance(c, p.data,
                 IF word_lt(q.value, p.value) THEN FromNat(1) ELSE ZeroWord, 1)

handleLt(c) ==
    LET p == Pop2(c.stack)
        b == p.first
        a == p.second
    IN  IF ~p.ok THEN Err([c EXCEPT !.stack = p.data], p.err)
        ELSE PushAndAdvance(c, p.data,
                 IF word_lt(a, b) THEN FromNat(1) ELSE ZeroWord, 1)

handleGt(c) ==
    LET p == Pop2(c.stack)
        b == p.first
        a == p.second
    IN  IF ~p.ok THEN Err([c EXCEPT !.stack = p.data], p.err)
        ELSE PushAndAdvance(c, p.data,
                 IF word_lt(b, a) THEN FromNat(1) ELSE ZeroWord, 1)

handleEq(c) ==
    LET p == Pop2(c.stack)
        b == p.first
        a == p.second
    IN  IF ~p.ok THEN Err([c EXCEPT !.stack = p.data], p.err)
        ELSE PushAndAdvance(c, p.data,
                 IF a = b THEN FromNat(1) ELSE ZeroWord, 1)

handleIsZero(c) ==
    LET p == pop(c.stack)
    IN  IF ~p.ok THEN Err(c, p.err)
        ELSE PushAndAdvance(c, p.data,
                 IF is_zero(p.value) THEN FromNat(1) ELSE ZeroWord, 1)

handleAnd(c) ==
    LET p == Pop2(c.stack)
        b == p.first
        a == p.second
    IN  IF ~p.ok THEN Err([c EXCEPT !.stack = p.data], p.err)
        ELSE PushAndAdvance(c, p.data, word_and(a, b), 1)

handleOr(c) ==
    LET p == Pop2(c.stack)
        b == p.first
        a == p.second
    IN  IF ~p.ok THEN Err([c EXCEPT !.stack = p.data], p.err)
        ELSE PushAndAdvance(c, p.data, word_or(a, b), 1)

handleXor(c) ==
    LET p == Pop2(c.stack)
        b == p.first
        a == p.second
    IN  IF ~p.ok THEN Err([c EXCEPT !.stack = p.data], p.err)
        ELSE PushAndAdvance(c, p.data, word_xor(a, b), 1)

handleNot(c) ==
    LET p == pop(c.stack)
    IN  IF ~p.ok THEN Err(c, p.err)
        ELSE PushAndAdvance(c, p.data, not_word(p.value), 1)

handlePop(c) ==
    LET p == pop(c.stack)
    IN  IF ~p.ok THEN Err(c, p.err)
        ELSE Ok([c EXCEPT !.stack = p.data, !.pc = c.pc + 1])

\* handleDup1 .. handleDup4, which differ in the index they peek at.
Dup(c, index) ==
    LET v == peek(c.stack, index)
    IN  IF ~v.ok THEN Err(c, v.err)
        ELSE PushAndAdvance(c, c.stack, v.value, 1)

handleDup1(c) == Dup(c, 0)
handleDup2(c) == Dup(c, 1)
handleDup3(c) == Dup(c, 2)
handleDup4(c) == Dup(c, 3)

\* handleSwap1 .. handleSwap4, which differ in the depth they swap with.
Swap(c, n) ==
    LET s == swap(c.stack, n)
    IN  IF ~s.ok THEN Err(c, s.err)
        ELSE Ok([c EXCEPT !.stack = s.data, !.pc = c.pc + 1])

handleSwap1(c) == Swap(c, 1)
handleSwap2(c) == Swap(c, 2)
handleSwap3(c) == Swap(c, 3)
handleSwap4(c) == Swap(c, 4)

\* Whether the model holds a memory of this size.
Allocates(size) == size >= 0 /\ size <= MaxMemory

handleMload(c) ==
    LET p == pop(c.stack)
        offset == p.value
        popped == [c EXCEPT !.stack = p.data]
    IN  IF ~p.ok THEN Err(c, p.err)
        ELSE IF ~fits_usize(offset) THEN Panic(popped)
        ELSE IF MemoryLoad(c.memory, as_usize(offset)).panics THEN Panic(popped)
        ELSE PushAndAdvance(c, p.data,
                            MemoryLoad(c.memory, as_usize(offset)).value, 1)

handleMstore(c) ==
    LET p == Pop2(c.stack)
        offset == p.first
        value == p.second
        popped == [c EXCEPT !.stack = p.data]
    IN  IF ~p.ok THEN Err(popped, p.err)
        ELSE IF ~fits_usize(offset) THEN Panic(popped)
        ELSE IF ~Allocates(usize_add(as_usize(offset), WordBytes))
             THEN OutOfModel(popped)
        ELSE IF MemoryStore(c.memory, as_usize(offset), value).panics
             THEN Panic([popped EXCEPT
                     !.memory = MemoryStore(c.memory, as_usize(offset), value).memory])
        ELSE Ok([popped EXCEPT
                   !.memory = MemoryStore(c.memory, as_usize(offset), value).memory,
                   !.pc = c.pc + 1])

handleMstore8(c) ==
    LET p == Pop2(c.stack)
        offset == p.first
        value == p.second
        byte == value[1]
        popped == [c EXCEPT !.stack = p.data]
    IN  IF ~p.ok THEN Err(popped, p.err)
        ELSE IF ~fits_usize(offset) THEN Panic(popped)
        ELSE IF ~Allocates(as_usize(offset)) \/ ~Allocates(as_usize(offset) + 1)
             THEN OutOfModel(popped)
        ELSE Ok([popped EXCEPT
                   !.memory = MemoryStoreByte(c.memory, as_usize(offset), byte),
                   !.pc = c.pc + 1])

handleMsize(c) ==
    PushAndAdvance(c, c.stack, FromNat(MemorySize(c.memory)), 1)

\* handleJump calling set_pc(dest_usize) before it validates the
\* destination.  C25 rests on the validation coming first.
handleJump_eager(c) ==
    LET p == pop(c.stack)
        dest == p.value
        dest_usize == as_usize(dest)
        popped == [c EXCEPT !.stack = p.data]
    IN  IF ~p.ok THEN Err(c, p.err)
        ELSE IF ~fits_usize(dest) THEN Panic(popped)
        ELSE IF ~usize_lt(dest_usize, Len(c.code))
             THEN Err(set_pc(popped, dest_usize), "InvalidJump")
        ELSE IF c.code[dest_usize + 1] # JUMPDEST
             THEN Err(set_pc(popped, dest_usize), "InvalidJump")
        ELSE Ok(set_pc(popped, dest_usize))

handleJump(c) ==
    LET p == pop(c.stack)
        dest == p.value
        dest_usize == as_usize(dest)
        popped == [c EXCEPT !.stack = p.data]
    IN  IF ~p.ok THEN Err(c, p.err)
        ELSE IF ~fits_usize(dest) THEN Panic(popped)
        ELSE IF ~usize_lt(dest_usize, Len(c.code)) THEN Err(popped, "InvalidJump")
        ELSE IF c.code[dest_usize + 1] # JUMPDEST THEN Err(popped, "InvalidJump")
        ELSE Ok(set_pc(popped, dest_usize))

\* handleJumpi converting and validating dest before it tests the
\* condition.  C21 rests on the test coming first.
handleJumpi_eager(c) ==
    LET p == Pop2(c.stack)
        dest == p.first
        condition == p.second
        dest_usize == as_usize(dest)
        popped == [c EXCEPT !.stack = p.data]
    IN  IF ~p.ok THEN Err(popped, p.err)
        ELSE IF ~fits_usize(dest) THEN Panic(popped)
        ELSE IF ~usize_lt(dest_usize, Len(c.code)) THEN Err(popped, "InvalidJump")
        ELSE IF c.code[dest_usize + 1] # JUMPDEST THEN Err(popped, "InvalidJump")
        ELSE IF ~is_zero(condition) THEN Ok(set_pc(popped, dest_usize))
        ELSE Ok(set_pc(popped, c.pc + 1))

handleJumpi(c) ==
    LET p == Pop2(c.stack)
        dest == p.first
        condition == p.second
        dest_usize == as_usize(dest)
        popped == [c EXCEPT !.stack = p.data]
    IN  IF ~p.ok THEN Err(popped, p.err)
        ELSE IF ~is_zero(condition)
             THEN IF ~fits_usize(dest) THEN Panic(popped)
                  ELSE IF ~usize_lt(dest_usize, Len(c.code)) THEN Err(popped, "InvalidJump")
                  ELSE IF c.code[dest_usize + 1] # JUMPDEST
                       THEN Err(popped, "InvalidJump")
                  ELSE Ok(set_pc(popped, dest_usize))
        ELSE Ok(set_pc(popped, c.pc + 1))

\* handleJumpdest calling ctx.stop().  C22 rests on stop() being called by
\* handleStop (and set_return_data) alone.
handleJumpdest_halting(c) == Ok(set_pc(stop(c), c.pc + 1))

handleJumpdest(c) == Ok(set_pc(c, c.pc + 1))

handlePc(c) == PushAndAdvance(c, c.stack, FromNat(c.pc), 1)

\* let mut padded = vec![0u8; 32]; padded[32 - n..].copy_from_slice(&bytes);
Padded(bytes) == Zeros(WordBytes - Len(bytes)) \o bytes

handlePush1(c) ==
    PushAndAdvance(c, c.stack, FromNat(read_code(c, 1)[1]), 2)

\* handlePush2 advancing pc by 2, as handlePush1 does.  C17 rests on the
\* advance of each handler.
handlePush2_short(c) ==
    PushAndAdvance(c, c.stack, from_big_endian(read_code(c, 2)), 2)

handlePush2(c) ==
    PushAndAdvance(c, c.stack, from_big_endian(read_code(c, 2)), 3)

handlePush3(c) ==
    PushAndAdvance(c, c.stack, from_big_endian(Padded(read_code(c, 3))), 4)

handlePush4(c) ==
    PushAndAdvance(c, c.stack, from_big_endian(Padded(read_code(c, 4))), 5)

handlePush5(c) ==
    PushAndAdvance(c, c.stack, from_big_endian(Padded(read_code(c, 5))), 6)

handlePush6(c) ==
    PushAndAdvance(c, c.stack, from_big_endian(Padded(read_code(c, 6))), 7)

handlePush7(c) ==
    PushAndAdvance(c, c.stack, from_big_endian(Padded(read_code(c, 7))), 8)

handlePush8(c) ==
    PushAndAdvance(c, c.stack, from_big_endian(Padded(read_code(c, 8))), 9)

handlePush32(c) ==
    PushAndAdvance(c, c.stack, from_big_endian(read_code(c, 32)), 33)

handleAddress(c) ==
    PushAndAdvance(c, c.stack, from_big_endian(Padded(c.contractAddress)), 1)

handleCaller(c) == PushAndAdvance(c, c.stack, ZeroWord, 1)

handleCallvalue(c) == PushAndAdvance(c, c.stack, ZeroWord, 1)

handleCalldataload(c) ==
    LET p == pop(c.stack)
        offset == p.value
        popped == [c EXCEPT !.stack = p.data]
    IN  IF ~p.ok THEN Err(c, p.err)
        ELSE IF ~fits_usize(offset) THEN Panic(popped)
        ELSE IF CalldataLoad(c.calldata, as_usize(offset)).panics
             THEN Panic(popped)
        ELSE PushAndAdvance(c, p.data,
                            CalldataLoad(c.calldata, as_usize(offset)).value, 1)

handleCalldatasize(c) ==
    PushAndAdvance(c, c.stack, FromNat(CalldataSize(c.calldata)), 1)

handleCalldatacopy(c) ==
    LET p == Pop3(c.stack)
        mem_offset == p.first
        calldata_offset == p.second
        length == p.third
        popped == [c EXCEPT !.stack = p.data]
    IN  IF ~p.ok THEN Err(popped, p.err)
        ELSE IF ~fits_usize(calldata_offset) \/ ~fits_usize(mem_offset)
                \/ ~fits_usize(length) THEN Panic(popped)
        ELSE IF ~Allocates(as_usize(mem_offset)) \/ ~Allocates(as_usize(length))
                \/ ~Allocates(as_usize(mem_offset) + as_usize(length))
             THEN OutOfModel(popped)
        ELSE IF copy_to_memory(c.calldata, as_usize(calldata_offset),
                               as_usize(mem_offset), as_usize(length),
                               c.memory).panics
             THEN Panic(popped)
        ELSE Ok([popped EXCEPT
                   !.memory = copy_to_memory(c.calldata, as_usize(calldata_offset),
                                             as_usize(mem_offset), as_usize(length),
                                             c.memory).memory,
                   !.pc = c.pc + 1])

handleCodesize(c) == PushAndAdvance(c, c.stack, FromNat(Len(c.code)), 1)

handleCodecopy(c) ==
    LET p == Pop3(c.stack)
        mem_offset == p.first
        code_offset == p.second
        length == p.third
        popped == [c EXCEPT !.stack = p.data]
    IN  IF ~p.ok THEN Err(popped, p.err)
        ELSE IF ~fits_usize(code_offset) \/ ~fits_usize(length)
                \/ ~fits_usize(mem_offset) THEN Panic(popped)
        ELSE IF ~Allocates(as_usize(mem_offset)) \/ ~Allocates(as_usize(length))
                \/ ~Allocates(as_usize(mem_offset) + as_usize(length))
             THEN OutOfModel(popped)
        ELSE IF overflow_checks
                /\ RangeOverflows(as_usize(code_offset), as_usize(length))
             THEN Panic(popped)
        ELSE Ok([popped EXCEPT
                   !.memory = MemoryStoreBytes(c.memory, as_usize(mem_offset),
                                  ZeroExtendedRange(c.code, as_usize(code_offset),
                                                    as_usize(length))),
                   !.pc = c.pc + 1])

\* handleReturn popping the length first and the offset second.  C12 rests
\* on the order of the pops.
handleReturn_swapped(c) ==
    LET p == Pop2(c.stack)
        length == p.first
        offset == p.second
        popped == [c EXCEPT !.stack = p.data]
    IN  IF ~p.ok THEN Err(popped, p.err)
        ELSE IF ~fits_usize(offset) \/ ~fits_usize(length) THEN Panic(popped)
        ELSE IF as_usize(offset) < 0 \/ ~Allocates(as_usize(length))
             THEN OutOfModel(popped)
        ELSE Ok(set_pc(set_return_data(popped, as_usize(offset), as_usize(length)),
                       c.pc + 1))

handleReturn(c) ==
    LET p == Pop2(c.stack)
        offset == p.first
        length == p.second
        popped == [c EXCEPT !.stack = p.data]
    IN  IF ~p.ok THEN Err(popped, p.err)
        ELSE IF ~fits_usize(offset) \/ ~fits_usize(length) THEN Panic(popped)
        ELSE IF as_usize(offset) < 0 \/ ~Allocates(as_usize(length))
             THEN OutOfModel(popped)
        ELSE Ok(set_pc(set_return_data(popped, as_usize(offset), as_usize(length)),
                       c.pc + 1))

\* The opcodes execute_opcode dispatches.
Dispatched ==
    {STOP, ADD, MUL, SUB, DIV, MOD, EXP, LT, GT, EQ, ISZERO, AND, OR, XOR, NOT,
     POP, DUP1, DUP2, DUP3, DUP4, SWAP1, SWAP2, SWAP3, SWAP4,
     MLOAD, MSTORE, MSTORE8, MSIZE, JUMP, JUMPI, JUMPDEST, PC,
     PUSH1, PUSH2, PUSH3, PUSH4, PUSH5, PUSH6, PUSH7, PUSH8, PUSH32,
     ADDRESS, CALLER, CALLVALUE, CALLDATALOAD, CALLDATASIZE, CALLDATACOPY,
     CODESIZE, CODECOPY, RETURN}

execute_opcode(op, c) ==
    CASE op = STOP -> handleStop(c)
      [] op = ADD -> handleAdd(c)
      [] op = MUL -> handleMul(c)
      [] op = SUB -> handleSub(c)
      [] op = DIV -> handleDiv(c)
      [] op = MOD -> handleMod(c)
      [] op = EXP -> handleExp(c)
      [] op = LT -> handleLt(c)
      [] op = GT -> handleGt(c)
      [] op = EQ -> handleEq(c)
      [] op = ISZERO -> handleIsZero(c)
      [] op = AND -> handleAnd(c)
      [] op = OR -> handleOr(c)
      [] op = XOR -> handleXor(c)
      [] op = NOT -> handleNot(c)
      [] op = POP -> handlePop(c)
      [] op = DUP1 -> handleDup1(c)
      [] op = DUP2 -> handleDup2(c)
      [] op = DUP3 -> handleDup3(c)
      [] op = DUP4 -> handleDup4(c)
      [] op = SWAP1 -> handleSwap1(c)
      [] op = SWAP2 -> handleSwap2(c)
      [] op = SWAP3 -> handleSwap3(c)
      [] op = SWAP4 -> handleSwap4(c)
      [] op = MLOAD -> handleMload(c)
      [] op = MSTORE -> handleMstore(c)
      [] op = MSTORE8 -> handleMstore8(c)
      [] op = MSIZE -> handleMsize(c)
      [] op = JUMP -> handleJump(c)
      [] op = JUMPI -> handleJumpi(c)
      [] op = JUMPDEST -> handleJumpdest(c)
      [] op = PC -> handlePc(c)
      [] op = PUSH1 -> handlePush1(c)
      [] op = PUSH2 -> handlePush2(c)
      [] op = PUSH3 -> handlePush3(c)
      [] op = PUSH4 -> handlePush4(c)
      [] op = PUSH5 -> handlePush5(c)
      [] op = PUSH6 -> handlePush6(c)
      [] op = PUSH7 -> handlePush7(c)
      [] op = PUSH8 -> handlePush8(c)
      [] op = PUSH32 -> handlePush32(c)
      [] op = ADDRESS -> handleAddress(c)
      [] op = CALLER -> handleCaller(c)
      [] op = CALLVALUE -> handleCallvalue(c)
      [] op = CALLDATALOAD -> handleCalldataload(c)
      [] op = CALLDATASIZE -> handleCalldatasize(c)
      [] op = CALLDATACOPY -> handleCalldatacopy(c)
      [] op = CODESIZE -> handleCodesize(c)
      [] op = CODECOPY -> handleCodecopy(c)
      [] op = RETURN -> handleReturn(c)
      [] OTHER -> Err(c, "InvalidOpcode")

(***************************************************************************)
(* The state: the fields of one ExecutionContext, the opcode and the       *)
(* result of the last call of execute_opcode on it, the context as it was  *)
(* before that call, and the number of calls made; overflow_checks,        *)
(* declared above, is the profile the interpreter was built with.          *)
(***************************************************************************)
VARIABLES code, calldata, contractAddress, stack, memory, pc, stopped,
          return_data, opcode, result, before, steps

vars == <<code, calldata, contractAddress, stack, memory, pc, stopped,
          return_data, opcode, result, before, steps, overflow_checks>>

\* The context the variables hold.
Ctx ==
    [code |-> code, stack |-> stack, memory |-> memory, calldata |-> calldata,
     contractAddress |-> contractAddress, pc |-> pc, stopped |-> stopped,
     return_data |-> return_data]

\* No call made yet.
NoOpcode == 0 - 1

\* The variables hold context c, on which no call has been made, in a build
\* with the given profile.
Holds(c, checks) ==
    /\ overflow_checks = checks
    /\ code = c.code
    /\ calldata = c.calldata
    /\ contractAddress = c.contractAddress
    /\ stack = c.stack
    /\ memory = c.memory
    /\ pc = c.pc
    /\ stopped = c.stopped
    /\ return_data = c.return_data
    /\ opcode = NoOpcode
    /\ result = "None"
    /\ before = c
    /\ steps = 0

(***************************************************************************)
(* Inputs.                                                                 *)
(***************************************************************************)
AddressSample == AsSeq([i \in 1..AddressBytes |-> 16 * i], AddressBytes)

\* Opcode bytes given to execute_opcode: every dispatched opcode, and some
\* bytes the dispatcher has no arm for (PUSH9, PUSH31, SLOAD, 0xFE).
OpcodeInputs == Dispatched \cup {104, 126, 84, 254}

\* Code of fresh contexts that take any opcode: JUMPDEST PUSH1 5B STOP, and
\* scenario S4, PUSH1 03 JUMP STOP STOP.
CodeSamples == {<<JUMPDEST, PUSH1, JUMPDEST, STOP>>, <<PUSH1, 3, JUMP, STOP, STOP>>}

CalldataSamples == {<<>>, <<1, 2, 3>>}

\* Words on the stacks of sampled contexts: 2^256 - 1, 0, 1, 2, 3, as the
\* integers they are modulo 2^256.
SampleInts == (0 - 1)..3

WordSamples == {WordOfInt(k) : k \in SampleInts}

\* Stacks of sampled contexts: every stack of up to MaxSampledDepth sampled
\* words (CALLVALUE, ISZERO, ADD and NOT build them, and a JUMP to offset 0
\* returns pc to 0), and the stacks 0, 1, 2, .. that executions of PC from
\* a fresh context leave, of the depths just above the sampled ones (where
\* DUP4 and SWAP4 find their operands), one short of full and full.
RECURSIVE StacksUpTo(_)
StacksUpTo(n) ==
    IF n = 0 THEN {<<>>}
    ELSE LET shorter == StacksUpTo(n - 1)
         IN  shorter \cup {Append(s, w) : s \in shorter, w \in WordSamples}

DeepStack(depth) == AsSeq([i \in 1..depth |-> FromNat(i - 1)], depth)

\* JUMPDEST PUSH1 5B: a JUMPDEST opcode (offset 0, where a JUMP from any
\* stack leaves pc), an opcode that is no JUMPDEST (offset 1), a 0x5B inside
\* a PUSH immediate (offset 2); offset 3 is the end of code.
JumpCode == <<JUMPDEST, PUSH1, JUMPDEST>>

SampledContexts ==
    {[ContextNew(AddressSample, JumpCode, <<1, 2, 3>>) EXCEPT !.stack = s]
        : s \in StacksUpTo(MaxSampledDepth)}
    \cup
    {[ContextNew(AddressSample, JumpCode, <<>>) EXCEPT
        !.stack = DeepStack(d), !.pc = d]
        : d \in {MaxSampledDepth + 1, MaxSampledDepth + 2, MAX_DEPTH - 1, MAX_DEPTH}}

\* Offsets and lengths on the stacks of the contexts with a memory: 0, 20,
\* 40 and usize::MAX (as -1).
OffsetSamples == {0, 20, 40, 0 - 1}

\* The word of a usize.
UsizeWord(n) ==
    AsWord([i \in 1..WordBytes |-> IF i <= UsizeBytes THEN WordOfInt(n)[i] ELSE 0])

\* The stacks of up to MostOperands words over a set of words.
RECURSIVE OperandStacks(_, _)
OperandStacks(words, n) ==
    IF n = 0 THEN {<<>>}
    ELSE LET shorter == OperandStacks(words, n - 1)
         IN  shorter \cup {Append(s, w) : s \in shorter, w \in words}

\* n bytes 1, 2, .., n.
CountingBytes(n) == AsSeq([i \in 1..n |-> i], n)

\* An empty memory, and one of two words of non-zero bytes (as two MSTOREs
\* leave it).
MemorySamples == {<<>>, CountingBytes(2 * WordBytes)}

\* Contexts with a memory: 40 bytes of calldata, so that a load at 0 lies
\* inside the calldata, at 20 straddles its end, at 40 lies beyond it; a
\* memory of 64 bytes, so that a load at 0 and 20 lies inside, at 40
\* straddles its end.
MemoryContexts ==
    {[ContextNew(AddressSample, JumpCode, CountingBytes(40)) EXCEPT
        !.stack = s, !.memory = m]
        : s \in OperandStacks({UsizeWord(n) : n \in OffsetSamples}, MostOperands),
          m \in MemorySamples}

\* Bytes of the programs the driver runs.
RunBytes == {0, 3, 5, 255}

\* Scenario S1 with operands x and y:
\* PUSH1 x PUSH1 y ADD PUSH1 0 MSTORE PUSH1 0x20 PUSH1 0 RETURN.
ProgramS1(x, y) ==
    <<PUSH1, x, PUSH1, y, ADD, PUSH1, 0, MSTORE, PUSH1, 32, PUSH1, 0, RETURN>>

\* Scenarios S4 (invalid JUMP), S5 (stack underflow), S3 (JUMP over data).
ProgramS4 == <<PUSH1, 3, JUMP, STOP, STOP>>
ProgramS5 == <<POP>>
ProgramS3 ==
    <<PUSH1, 4, JUMP, STOP, JUMPDEST, PUSH1, 66, PUSH1, 0, MSTORE,
      PUSH1, 32, PUSH1, 0, RETURN>>

\* CALLVALUE CALLVALUE SUB ... : programs over opcodes that take no
\* immediate, ending at the end of code.
ProgramPcJump == <<JUMPDEST, PC, ISZERO, JUMPI, CALLVALUE, JUMP>>
ProgramArith == <<CALLVALUE, ISZERO, DUP1, DUP1, ADD, SWAP1, SUB, CALLVALUE, MSTORE>>

\* RETURN of a non-empty range (PUSH1 leaves 0x60, the length), followed by
\* an opcode that fails if it is ever executed.
ProgramReturnThenPop == <<PUSH1, 0, CALLVALUE, RETURN, POP>>

Programs ==
    {ProgramS1(x, y) : x \in RunBytes, y \in RunBytes}
    \cup {ProgramS3, ProgramS4, ProgramS5, ProgramPcJump, ProgramArith,
          ProgramReturnThenPop}

(***************************************************************************)
(* Specifications.                                                         *)
(***************************************************************************)
\* A fresh context.
Init ==
    \E c \in CodeSamples, d \in CalldataSamples, checks \in BOOLEAN :
        Holds(ContextNew(AddressSample, c, d), checks)

\* A sampled context.  No usize of these contexts is within a length of
\* usize::MAX, where alone the profiles differ (InitMemory holds such
\* contexts, under both profiles).
InitSampled == \E c \in SampledContexts : Holds(c, TRUE)

\* A sampled context with offsets and a memory, under either profile.
InitMemory ==
    \E c \in MemoryContexts, checks \in BOOLEAN : Holds(c, checks)

\* A fresh context holding a program for the driver.
InitRun ==
    \E c \in Programs, checks \in BOOLEAN :
        Holds(ContextNew(AddressSample, c, <<>>), checks)

\* The variables after a call that left context c and returned res.
Returns(op, c, res) ==
    /\ stack' = c.stack
    /\ memory' = c.memory
    /\ pc' = c.pc
    /\ stopped' = c.stopped
    /\ return_data' = c.return_data
    /\ opcode' = op
    /\ result' = res
    /\ before' = Ctx
    /\ steps' = steps + 1
    /\ UNCHANGED <<code, calldata, contractAddress, overflow_checks>>

\* The outcome r of a call, when the model holds it.
Outcome(op, r) == r.res # "OutOfModel" /\ Returns(op, r.ctx, r.res)

\* One call execute_opcode(op, ctx) that returns or panics.
Call(op) == \E r \in {execute_opcode(op, Ctx)} : Outcome(op, r)

\* Any caller: execute_opcode is public and takes any opcode byte, whatever
\* the context's state; nothing runs after a panic.
Execute ==
    /\ steps < MaxSteps
    /\ result # "Panic"
    /\ \E op \in OpcodeInputs : Call(op)

\* One call on a sampled context.
ExecuteSampled ==
    /\ steps = 0
    /\ result # "Panic"
    /\ \E op \in OpcodeInputs : Call(op)

\* The driver's loop: while the context is not halted and no error came
\* back, execute the opcode at pc (STOP past the end of code).
Step ==
    /\ steps < MaxRunSteps
    /\ ~stopped
    /\ result \in {"None", "Ok"}
    /\ Call(IF pc < Len(code) THEN code[pc + 1] ELSE STOP)

Next == Execute
NextSampled == ExecuteSampled
NextRun == Step

Spec == Init /\ [][Next]_vars
SpecSampled == InitSampled /\ [][NextSampled]_vars
SpecMemory == InitMemory /\ [][NextSampled]_vars
SpecRun == InitRun /\ [][NextRun]_vars

\* The driver's loop does not pause for ever between two opcodes.
SpecRunFair == SpecRun /\ WF_vars(Step)

(***************************************************************************)
(* Properties.  They read the last call from the history variables: the    *)
(* opcode, what it returned, and the context before it.                    *)
(***************************************************************************)
\* The top of a stack, the word below it, and the words below those two.
Top(data) == data[Len(data)]
Below(data) == data[Len(data) - 1]
Rest(data) == SubSeq(data, 1, Len(data) - 2)

\* The last call was opcode op on a stack of at least two words.
Binary(op) == opcode = op /\ Len(before.stack) >= 2

\* The last call succeeded and replaced the two top words by w.
Pushed(w) == result = "Ok" /\ stack = Append(Rest(before.stack), w)

\* The opcodes whose handlers push without popping first.
Pushers ==
    {PUSH1, PUSH2, PUSH3, PUSH4, PUSH5, PUSH6, PUSH7, PUSH8, PUSH32,
     DUP1, DUP2, DUP3, DUP4, PC, MSIZE, ADDRESS, CALLDATASIZE, CODESIZE,
     CALLER, CALLVALUE}

\* C1: the stack never holds more than MAX_DEPTH = 1024 words, and a push
\* attempted on a stack of 1024 words (by a PUSHn, DUPn, PC, MSIZE, ADDRESS,
\* CALLDATASIZE, CODESIZE, CALLER or CALLVALUE handler) returns StackOverflow
\* and leaves the stack as it was.
C1_StackDepthBound ==
    /\ Len(stack) <= MAX_DEPTH
    /\ (opcode \in Pushers /\ Len(before.stack) = MAX_DEPTH)
          => (result = "StackOverflow" /\ stack = before.stack)

\* C1, witness: CALLVALUE on a full stack returned StackOverflow.
C1_FullStackRejectsPush ==
    /\ opcode = CALLVALUE
    /\ Len(before.stack) = MAX_DEPTH
    /\ result = "StackOverflow"
    /\ stack = before.stack

\* C2: PUSHn (n in 1..32) executed on an empty stack at a pc whose code byte
\* is the PUSHn opcode leaves exactly one word, the big-endian value of the n
\* code bytes after the opcode byte, and sets pc to pc + 1 + n.
C2_PushDecodesImmediate ==
    \A n \in 1..WordBytes :
        (/\ opcode = PUSH1 + (n - 1)
         /\ before.stack = <<>>
         /\ before.pc < Len(code)
         /\ code[before.pc + 1] = opcode)
        => /\ result = "Ok"
           /\ stack = <<from_big_endian(ZeroExtendedRange(code, before.pc + 1, n))>>
           /\ pc = before.pc + 1 + n

\* C3: the program PUSH1 x PUSH1 y ADD PUSH1 0 MSTORE PUSH1 0x20 PUSH1 0
\* RETURN, run by the driver from a fresh context, ends halted without an
\* error, with return_data the 32 big-endian bytes of x + y.
C3_AddProgramReturnsSum ==
    \A x \in RunBytes, y \in RunBytes :
        (code = ProgramS1(x, y) /\ (stopped \/ result \notin {"None", "Ok"}))
        => /\ result = "Ok"
           /\ stopped
           /\ return_data = to_big_endian(FromNat(x + y))

\* C4: whenever an opcode execution returns an error, the context is halted
\* and pc is still the pc of the failing opcode.
C4_ErrorsHalt == result \in Errors => (stopped /\ pc = before.pc)

\* C5: executing any opcode on a halted context leaves pc, stack, memory and
\* return_data as they were.
C5_HaltedIsTerminal ==
    (opcode # NoOpcode /\ before.stopped)
    => /\ pc = before.pc
       /\ stack = before.stack
       /\ memory = before.memory
       /\ return_data = before.return_data

\* C6: JUMP with destination dest on top succeeds, with pc = dest, exactly
\* when dest < len(code) and code[dest] = 0x5B (inside a PUSH immediate or
\* not), and returns InvalidJump otherwise.
C6_JumpValidity ==
    (opcode = JUMP /\ before.stack # <<>>)
    => LET dest == Top(before.stack)
       IN  IF /\ word_lt(dest, FromNat(Len(code)))
              /\ code[LowValue(dest, ExactUsizeBytes) + 1] = JUMPDEST
           THEN result = "Ok" /\ dest = FromNat(pc)
           ELSE result = "InvalidJump"

\* C7: with a on top and b below, SUB pushes a - b modulo 2^256, DIV pushes
\* a / b and MOD pushes a mod b (b # 0), in place of the two operands.
C7_TopIsLeftOperand ==
    /\ Binary(SUB) =>
          /\ Pushed(overflowing_sub(Top(before.stack), Below(before.stack)))
          /\ \A ka \in SampleInts, kb \in SampleInts :
                (/\ Top(before.stack) = WordOfInt(ka)
                 /\ Below(before.stack) = WordOfInt(kb))
                => Pushed(WordOfInt(ka - kb))
    /\ (Binary(DIV) /\ ~is_zero(Below(before.stack)))
          => Pushed(word_div(Top(before.stack), Below(before.stack)))
    /\ (Binary(MOD) /\ ~is_zero(Below(before.stack)))
          => Pushed(word_rem(Top(before.stack), Below(before.stack)))

\* C8: DIV and MOD on a stack of at least two words always succeed, and push
\* 0 whenever the word below the top is 0 (and whenever the top is 0).
C8_DivisionByZero ==
    (Binary(DIV) \/ Binary(MOD))
    => /\ result = "Ok"
       /\ (is_zero(Below(before.stack)) \/ is_zero(Top(before.stack)))
             => Pushed(ZeroWord)

\* C8, witness: DIV with 0 below a non-zero top pushed 0.
C8_DivOfZeroBelow ==
    /\ Binary(DIV)
    /\ is_zero(Below(before.stack))
    /\ ~is_zero(Top(before.stack))
    /\ Pushed(ZeroWord)

\* C9: EXP takes the base from the top and the exponent from below it and
\* pushes base^exponent modulo 2^256: 1 when the exponent is 0, 0 when the
\* base is 0 and the exponent is not.
C9_ExpBaseOnTop ==
    Binary(EXP)
    => LET base == Top(before.stack)
           exponent == Below(before.stack)
       IN  /\ is_zero(exponent) => Pushed(FromNat(1))
           /\ (is_zero(base) /\ ~is_zero(exponent)) => Pushed(ZeroWord)
           /\ \A n \in 0..MaxRefExponent :
                 exponent = FromNat(n) => Pushed(Power(base, n))

\* C10: ADD and MUL on the two top words a and b always succeed and push
\* a + b and a * b modulo 2^256, whichever of the two is on top.
C10_AddMulWrap ==
    /\ Binary(ADD) =>
          /\ Pushed(overflowing_add(Top(before.stack), Below(before.stack)))
          /\ Pushed(overflowing_add(Below(before.stack), Top(before.stack)))
          /\ \A ka \in SampleInts, kb \in SampleInts :
                (/\ Top(before.stack) = WordOfInt(ka)
                 /\ Below(before.stack) = WordOfInt(kb))
                => Pushed(WordOfInt(ka + kb))
    /\ Binary(MUL) =>
          /\ Pushed(overflowing_mul(Top(before.stack), Below(before.stack)))
          /\ Pushed(overflowing_mul(Below(before.stack), Top(before.stack)))
          /\ \A ka \in SampleInts, kb \in SampleInts :
                (/\ Top(before.stack) = WordOfInt(ka)
                 /\ Below(before.stack) = WordOfInt(kb))
                => Pushed(WordOfInt(ka * kb))

\* C10, witness: ADD of 2^256 - 1 and 1 pushed 0, the sum wrapped.
C10_AddWraps ==
    /\ Binary(ADD)
    /\ Top(before.stack) = MaxWord
    /\ Below(before.stack) = FromNat(1)
    /\ Pushed(ZeroWord)

\* The third word from the top of a stack.
Third(data) == data[Len(data) - 2]

\* A word below UsizeHuge, and the number it is.
IsSmall(w) == \A i \in (ExactUsizeBytes + 1)..WordBytes : w[i] = 0
NatOf(w) == LowValue(w, ExactUsizeBytes)

\* msize is at least o + l, for words o and a number l.
Reaches(o, l) == IsSmall(o) /\ Len(memory) >= NatOf(o) + l

\* C11: msize never decreases, and after a successful store at offset o of
\* length l (MSTORE 32, MSTORE8 1, CALLDATACOPY and CODECOPY their length
\* operand) msize >= o + l.
C11_MemoryGrows ==
    /\ Len(memory) >= Len(before.memory)
    /\ (result = "Ok" /\ opcode = MSTORE) => Reaches(Top(before.stack), WordBytes)
    /\ (result = "Ok" /\ opcode = MSTORE8) => Reaches(Top(before.stack), 1)
    /\ (result = "Ok" /\ opcode \in {CALLDATACOPY, CODECOPY})
          => /\ IsSmall(Third(before.stack))
             /\ Reaches(Top(before.stack), NatOf(Third(before.stack)))

\* C11, witness: MSTORE at offset 40 grew a memory of 64 bytes to 72.
C11_StoreGrewMemory ==
    /\ opcode = MSTORE
    /\ result = "Ok"
    /\ Len(before.memory) = 2 * WordBytes
    /\ Top(before.stack) = FromNat(40)
    /\ Len(memory) = 40 + WordBytes

\* C12: RETURN with offset on top and length below (both within the memory
\* the model holds) halts and sets return_data to exactly length bytes, byte
\* i being memory[offset + i] below msize and 0 from msize on; the memory is
\* unchanged.
C12_ReturnSnapshot ==
    (/\ Binary(RETURN)
     /\ IsSmall(Top(before.stack))
     /\ IsSmall(Below(before.stack))
     /\ NatOf(Below(before.stack)) <= MaxMemory)
    => LET offset == NatOf(Top(before.stack))
           length == NatOf(Below(before.stack))
       IN  /\ result = "Ok"
           /\ stopped
           /\ Len(return_data) = length
           /\ \A i \in 0..(length - 1) :
                 return_data[i + 1] =
                    IF offset + i < Len(before.memory)
                    THEN before.memory[offset + i + 1] ELSE 0
           /\ memory = before.memory

\* C12, witness: RETURN of 40 bytes from offset 40 of a 64-byte memory, a
\* range partly beyond msize.
C12_ReturnPastEnd ==
    /\ Binary(RETURN)
    /\ Top(before.stack) = FromNat(40)
    /\ Below(before.stack) = FromNat(40)
    /\ Len(before.memory) = 2 * WordBytes
    /\ stopped
    /\ Len(return_data) = 40
    /\ return_data[1] = 41
    /\ return_data[40] = 0

\* C13: MLOAD at any offset (a word that fits a usize) succeeds, leaves the
\* memory unchanged and pushes the big-endian word at [offset, offset + 32)
\* when offset + 32 <= msize and 0 otherwise.
C13_MloadNeverGrows ==
    (opcode = MLOAD /\ before.stack # <<>> /\ fits_usize(Top(before.stack)))
    => LET o == Top(before.stack)
           inside == IsSmall(o) /\ NatOf(o) + WordBytes <= Len(before.memory)
       IN  /\ result = "Ok"
           /\ memory = before.memory
           /\ Len(stack) = Len(before.stack)
           /\ Top(stack) =
                 IF inside
                 THEN from_big_endian(SubSeq(before.memory, NatOf(o) + 1,
                                             NatOf(o) + WordBytes))
                 ELSE ZeroWord

\* C14: CALLDATALOAD at any offset o (a word that fits a usize) succeeds and
\* pushes the big-endian value of the 32 bytes whose byte i is
\* calldata[o + i] when o + i < size() and 0 otherwise.
C14_CalldataWindow ==
    (opcode = CALLDATALOAD /\ before.stack # <<>>
        /\ fits_usize(Top(before.stack)))
    => LET o == Top(before.stack)
           window == AsWord([i \in 1..WordBytes |->
                        IF IsSmall(o) /\ NatOf(o) + i - 1 < Len(calldata)
                        THEN calldata[NatOf(o) + i] ELSE 0])
       IN  /\ result = "Ok"
           /\ Len(stack) = Len(before.stack)
           /\ Top(stack) = from_big_endian(window)

C16_SwapUnderflow ==
    \A n \in 1..4 :
        (opcode = SWAP1 + (n - 1) /\ Len(before.stack) < n + 1)
        => (result = "StackUnderflow" /\ stack = before.stack)

\* C17: a successful opcode leaves pc at the destination (JUMP, and JUMPI
\* with a non-zero condition), at pc + 1 + n (PUSHn) or at pc + 1 (every
\* other opcode).
C17_PcAdvance ==
    result = "Ok"
    => IF opcode = JUMP \/ (opcode = JUMPI /\ ~is_zero(Below(before.stack)))
       THEN Top(before.stack) = FromNat(pc)
       ELSE IF opcode \in PUSH1..PUSH32
       THEN pc = before.pc + 1 + (opcode - PUSH1 + 1)
       ELSE pc = before.pc + 1

\* C17, witness: PUSH2 advanced pc by 3.
C17_Push2Advanced ==
    /\ opcode = PUSH2
    /\ result = "Ok"
    /\ pc = before.pc + 3

\* The words a handler converts to a usize, on the stack before the call.
SizeOperands ==
    IF opcode \in {MLOAD, MSTORE, MSTORE8, CALLDATALOAD} /\ Len(before.stack) >= 1
    THEN {Top(before.stack)}
    ELSE IF opcode = RETURN /\ Len(before.stack) >= 2
    THEN {Top(before.stack), Below(before.stack)}
    ELSE IF opcode \in {CALLDATACOPY, CODECOPY} /\ Len(before.stack) >= 3
    THEN {Top(before.stack), Below(before.stack), Third(before.stack)}
    ELSE {}

\* C18: when a word used as an offset or length by MLOAD, MSTORE, MSTORE8,
\* CALLDATALOAD, CALLDATACOPY, CODECOPY or RETURN exceeds usize::MAX, the
\* handler returns OffsetTooLarge and leaves the memory untouched.
C18_OffsetTooLarge ==
    (opcode # NoOpcode /\ \E w \in SizeOperands : ~fits_usize(w))
    => (result = "OffsetTooLarge" /\ memory = before.memory)

\* C19: when a run of the driver ends with an error, return_data is empty.
C19_NoReturnDataOnError == result \in Errors => return_data = <<>>

\* C19, witness: a run ended with InvalidJump after a successful opcode, with
\* no return data.
C19_ErrorAfterProgress ==
    /\ result = "InvalidJump"
    /\ steps >= 2
    /\ return_data = <<>>

\* C20: every opcode byte 0x60..0x7F is executed as PUSHn, n = byte - 0x5F:
\* on a stack with room it succeeds with one more word and pc advanced by
\* 1 + n, and is never rejected as InvalidOpcode.
C20_AllPushesDispatched ==
    (opcode \in PUSH1..PUSH32 /\ Len(before.stack) < MAX_DEPTH)
    => /\ result = "Ok"
       /\ Len(stack) = Len(before.stack) + 1
       /\ pc = before.pc + 1 + (opcode - PUSH1 + 1)

\* C21: JUMPI pops dest (top) and cond (below).  With cond = 0 it succeeds
\* and advances pc by 1 whatever dest is; with cond # 0 it leaves the
\* context and returns the result that JUMP leaves and returns on the same
\* context without the cond word.
C21_JumpiCondition ==
    Binary(JUMPI)
    => IF is_zero(Below(before.stack))
       THEN /\ result = "Ok"
            /\ pc = before.pc + 1
            /\ stack = Rest(before.stack)
       ELSE LET jump == handleJump([before EXCEPT
                            !.stack = Append(Rest(before.stack),
                                             Top(before.stack))])
            IN  /\ result = jump.res
                /\ Ctx = jump.ctx

\* C21, witness: JUMPI with cond = 0 and dest = 2^256 - 1 advanced pc by 1.
C21_UntakenHugeDest ==
    /\ Binary(JUMPI)
    /\ Top(before.stack) = MaxWord
    /\ is_zero(Below(before.stack))
    /\ result = "Ok"
    /\ pc = before.pc + 1

\* C22: stopped starts false, never returns from true to false, and is
\* still false after a successful opcode other than STOP and RETURN executed
\* on a context that was not halted.
C22_HaltedMonotonic ==
    /\ steps = 0 => ~stopped
    /\ before.stopped => stopped
    /\ (result = "Ok" /\ opcode \notin {STOP, RETURN} /\ ~before.stopped)
          => ~stopped

\* C22, witness: an opcode succeeded on a halted context, which is still
\* halted.
C22_StillHalted ==
    /\ before.stopped
    /\ opcode = CALLVALUE
    /\ result = "Ok"
    /\ stopped

\* C23: MSTORE with offset o on top and value v below succeeds when o + 32
\* is a size the memory can take, and after a successful MSTORE byte o + k
\* of the memory is byte k of the 32 big-endian bytes of v, every other byte
\* below the former msize keeps its value, every other byte from the former
\* msize on is 0, msize is the larger of the former msize and o + 32, and
\* Memory::load at o returns v.
C23_MstoreWritesWord ==
    Binary(MSTORE)
    => LET o == Top(before.stack)
           v == Below(before.stack)
           n == NatOf(o)
       IN  /\ (IsSmall(o) /\ n + WordBytes <= MaxMemory) => result = "Ok"
           /\ result = "Ok"
              => /\ IsSmall(o)
                 /\ Len(memory) =
                       IF n + WordBytes > Len(before.memory)
                       THEN n + WordBytes ELSE Len(before.memory)
                 /\ \A i \in 1..Len(memory) :
                       memory[i] =
                          IF i > n /\ i <= n + WordBytes
                          THEN v[WordBytes + 1 - (i - n)]
                          ELSE IF i <= Len(before.memory)
                          THEN before.memory[i]
                          ELSE 0
                 /\ ~MemoryLoad(memory, n).panics
                 /\ MemoryLoad(memory, n).value = v

\* C23, witness: MSTORE of the word 20 at offset 40 of a 64-byte memory
\* wrote its low byte at offset 71, kept byte 39 and grew the memory by the
\* eight bytes it wrote last.
C23_WordStoredAcrossEnd ==
    /\ Binary(MSTORE)
    /\ result = "Ok"
    /\ Top(before.stack) = FromNat(40)
    /\ Below(before.stack) = FromNat(20)
    /\ Len(before.memory) = 2 * WordBytes
    /\ memory[40] = before.memory[40]
    /\ memory[41] = 0
    /\ memory[72] = 20

\* C24: in a run of the driver from a fresh context, every successful
\* opcode other than JUMP and JUMPI strictly increases pc; a JUMP or JUMPI
\* is executed, or the run reaches halted or an error; and a run whose pc
\* is at or past the end of code halts by the STOP executed there.
C24_JumpFreeTerminates ==
    /\ []((result = "Ok" /\ opcode \notin {JUMP, JUMPI}) => pc > before.pc)
    /\ <>(opcode \in {JUMP, JUMPI} \/ stopped \/ result \in Errors)
    /\ (~stopped /\ result \in {"None", "Ok"} /\ pc >= Len(code))
          ~> (stopped /\ opcode = STOP /\ before.pc >= Len(code))

\* C24, witness: a run of jump-free code went past the end of code and was
\* halted by the implicit STOP.
C24_ImplicitStop ==
    /\ code = ProgramArith
    /\ stopped
    /\ result = "Ok"
    /\ opcode = STOP
    /\ before.pc = Len(code)
    /\ pc = Len(code) + 1

\* C25: when execute_opcode returns an error, pc, the memory and
\* return_data are as before the call, and the stack is the stack before
\* the call without some of its top words.
C25_ErrorsKeepState ==
    result \in Errors
    => /\ pc = before.pc
       /\ memory = before.memory
       /\ return_data = before.return_data
       /\ Len(stack) <= Len(before.stack)
       /\ stack = SubSeq(before.stack, 1, Len(stack))

\* C25, witness: ADD on a stack of one word failed after popping it.
C25_OperandPoppedBeforeFailure ==
    /\ opcode = ADD
    /\ result = "StackUnderflow"
    /\ Len(before.stack) = 1
    /\ stack = <<>>
    /\ pc = before.pc

\* C26: ADD, MUL, SUB, DIV, MOD, EXP, LT, GT, EQ, AND, OR and XOR on a stack
\* of depth d >= 2 succeed, leave depth d - 1 with the d - 2 words below the
\* operands unchanged, and leave memory, stopped and return_data unchanged;
\* on a stack of depth < 2 they return StackUnderflow.
C26_BinaryFrame ==
    opcode \in {ADD, MUL, SUB, DIV, MOD, EXP, LT, GT, EQ, AND, OR, XOR}
    => IF Len(before.stack) >= 2
       THEN /\ result = "Ok"
            /\ Len(stack) = Len(before.stack) - 1
            /\ SubSeq(stack, 1, Len(stack) - 1) = Rest(before.stack)
            /\ memory = before.memory
            /\ stopped = before.stopped
            /\ return_data = before.return_data
       ELSE result = "StackUnderflow"

\* C26, witness: EXP on a full stack left 1023 words, the lower 1022 as
\* they were.
C26_ExpOnFullStack ==
    /\ opcode = EXP
    /\ Len(before.stack) = MAX_DEPTH
    /\ result = "Ok"
    /\ Len(stack) = MAX_DEPTH - 1
    /\ SubSeq(stack, 1, MAX_DEPTH - 2) = Rest(before.stack)

====
